---- MODULE Spec2Model ----
(***************************************************************************)
(* qimg (src/qimg.c): a framebuffer image viewer.  The module models the   *)
(* program from the entry of qimg_draw_images to the end of main: the      *)
(* batched loader (qimg_dyn_collection), the slideshow loop, the           *)
(* compositor, the presentation cycle (qimg_draw_buffer) with its clock,   *)
(* and the asynchronous signal handler that clears `run`.                  *)
(*                                                                         *)
(* C arrays are functions on 0..n-1, so offsets read as in the source.     *)
(***************************************************************************)
EXTENDS Integers, Sequences, FiniteSets, TLC

VARIABLES
    args,         \* main's locals after parse_arguments and the defaulting of
                  \* line 1040: n_inputs, loop, repaint, slide_dly_s,
                  \* hide_cursor, pos, bg
    scale,        \* the static global `scale`
    buffer_size,  \* the window capacity the build was compiled with
    files,        \* the decode collaborator: source index -> decoded image
    dcol,         \* main's qimg_dyn_collection
    im,           \* the pointer qimg_get_next returned last
    wild,         \* what `im` points at when it points outside the loaded window
    i,            \* qimg_draw_images' counter
    fb,           \* the mapped framebuffer: res, bytes per pixel, size, fbdata
    buf,          \* qimg_draw_image's off-surface frame buffer
    start_ticks,  \* qimg_draw_buffer's local
    to_sleep,     \* qimg_draw_buffer's local
    run,          \* the static volatile flag the signal handler clears
    pc,           \* where main's thread of control stands
    clk,          \* clock() - begin_clk, in milliseconds of CPU time
    obs           \* observations of the run (not program state)

vars == <<args, scale, buffer_size, files, dcol, im, wild, i, fb, buf,
          start_ticks, to_sleep, run, pc, clk, obs>>

(***************************************************************************)
(* Bounds of the model.                                                    *)
(***************************************************************************)
MaxN == 11           \* sources in a loader run (more than two windows)


(***************************************************************************)
(* Program constants and enumerations.                                     *)
(***************************************************************************)
MAX_BUFFER_SIZE == 5

POS_CENTERED == "POS_CENTERED"
POS_TOP_LEFT == "POS_TOP_LEFT"
POS_TOP_RIGHT == "POS_TOP_RIGHT"
POS_BOTTOM_RIGHT == "POS_BOTTOM_RIGHT"
POS_BOTTOM_LEFT == "POS_BOTTOM_LEFT"
qimg_position ==
    {POS_CENTERED, POS_TOP_LEFT, POS_TOP_RIGHT, POS_BOTTOM_RIGHT, POS_BOTTOM_LEFT}

BG_BLACK == "BG_BLACK"
BG_WHITE == "BG_WHITE"
BG_RED == "BG_RED"
BG_GREEN == "BG_GREEN"
BG_BLUE == "BG_BLUE"
BG_DISABLED == "BG_DISABLED"
qimg_bg == {BG_BLACK, BG_WHITE, BG_RED, BG_GREEN, BG_BLUE, BG_DISABLED}

SCALE_DISABLED == "SCALE_DISABLED"
SCALE_FIT == "SCALE_FIT"
SCALE_STRETCH == "SCALE_STRETCH"
SCALE_FILL == "SCALE_FILL"
qimg_scale == {SCALE_DISABLED, SCALE_FIT, SCALE_STRETCH, SCALE_FILL}

Min(a, b) == IF a < b THEN a ELSE b

(***************************************************************************)
(* Images.  `src` (the source the buffer was decoded from) and `live`      *)
(* (the pixel buffer has not been passed to free) are bookkeeping; res, c  *)
(* and pixels are the fields of qimg_image.                                *)
(***************************************************************************)
NoSource == -1

qimg_point(x, y) == [x |-> x, y |-> y]

\* stbi_load: the external codec, as a deterministic byte pattern that
\* differs between sources and between offsets.
DecodedImage(s, w, h, c) ==
    [src |-> s, res |-> qimg_point(w, h), c |-> c,
     pixels |-> [o \in 0..(w * h * c - 1) |-> (16 * s + o + 1) % 256],
     live |-> TRUE]

qimg_load_image(s) == files[s]

qimg_load_collection(n_inputs, offset) ==
    [idx |-> 0, size |-> n_inputs,
     images |-> [k \in 0..(n_inputs - 1) |-> qimg_load_image(offset + k)]]

qimg_init_dyn_collection(n_inputs, K) ==
    [size |-> n_inputs, n_consumed |-> 0, idx |-> 0,
     col |-> qimg_load_collection(Min(n_inputs, K), 0)]

\* qimg_get_next with the refill reading from the start of input_paths
\* instead of from dcol->idx.
qimg_get_next_from_start(d, K) ==
    LET reload == d.n_consumed = d.col.size
        left == d.size - d.idx
        n == IF left < K THEN left ELSE K
        d1 == IF reload
              THEN [d EXCEPT !.col = qimg_load_collection(n, 0),
                             !.n_consumed = 0]
              ELSE d
        d2 == [d1 EXCEPT !.idx = @ + 1, !.n_consumed = @ + 1]
        d3 == IF d2.idx = d2.size
              THEN [d2 EXCEPT !.idx = 0, !.n_consumed = d2.size]
              ELSE d2
    IN  [dcol |-> [d3 EXCEPT !.col.idx = @ + 1],
         slot |-> d3.col.idx,
         reload |-> reload]

\* qimg_get_next on collection d with window capacity K: the collection
\* after the call, the window slot the returned pointer names, and whether
\* the call loaded a batch.
qimg_get_next(d, K) ==
    LET reload == d.n_consumed = d.col.size
        left == d.size - d.idx
        n == IF left < K THEN left ELSE K
        d1 == IF reload
              THEN [d EXCEPT !.col = qimg_load_collection(n, d.idx),
                             !.n_consumed = 0]
              ELSE d
        d2 == [d1 EXCEPT !.idx = @ + 1, !.n_consumed = @ + 1]
        d3 == IF d2.idx = d2.size
              THEN [d2 EXCEPT !.idx = 0, !.n_consumed = d2.size]
              ELSE d2
    IN  [dcol |-> [d3 EXCEPT !.col.idx = @ + 1],
         slot |-> d3.col.idx,
         reload |-> reload]

(***************************************************************************)
(* The framebuffer.  qimg_open_fb_from_path: size = xres * yres * bytes    *)
(* per pixel, fbdata is the mapping of that many bytes.                    *)
(***************************************************************************)
FbByte(o) == 200 + (o % 50)

qimg_open_fb_from_path(xres, yres, fb_bytes) ==
    [res |-> qimg_point(xres, yres), bytes |-> fb_bytes,
     size |-> xres * yres * fb_bytes,
     fbdata |-> [o \in 0..(xres * yres * fb_bytes - 1) |-> FbByte(o)]]

qimg_clear_framebuffer(f) == [f EXCEPT !.fbdata = [o \in DOMAIN @ |-> 0]]

(***************************************************************************)
(* The compositor.                                                         *)
(***************************************************************************)
qimg_color(r, g, b, a) == [r |-> r, g |-> g, b |-> b, a |-> a]

\* The translation with the two axes exchanged.
qimg_translate_coords_transposed(pos, imres, fbres, x, y) ==
    CASE pos = POS_TOP_LEFT -> qimg_point(y, x)
      [] pos = POS_TOP_RIGHT -> qimg_point(y - (fbres.x - imres.x), x)
      [] pos = POS_BOTTOM_RIGHT ->
            qimg_point(y - (fbres.x - imres.x), x - (fbres.y - imres.y))
      [] pos = POS_BOTTOM_LEFT -> qimg_point(y, x - (fbres.y - imres.y))
      [] pos = POS_CENTERED ->
            qimg_point(y - ((fbres.x \div 2) - (imres.x \div 2)),
                       x - ((fbres.y \div 2) - (imres.y \div 2)))

qimg_translate_coords(pos, imres, fbres, x, y) ==
    CASE pos = POS_TOP_LEFT -> qimg_point(x, y)
      [] pos = POS_TOP_RIGHT -> qimg_point(x - (fbres.x - imres.x), y)
      [] pos = POS_BOTTOM_RIGHT ->
            qimg_point(x - (fbres.x - imres.x), y - (fbres.y - imres.y))
      [] pos = POS_BOTTOM_LEFT -> qimg_point(x, y - (fbres.y - imres.y))
      [] pos = POS_CENTERED ->
            qimg_point(x - ((fbres.x \div 2) - (imres.x \div 2)),
                       y - ((fbres.y \div 2) - (imres.y \div 2)))

\* The caller has checked 0 <= x < res.x and 0 <= y < res.y, so the assertf
\* of line 727 passes and every offset read lies in the pixel buffer.
qimg_get_pixel(image, x, y) ==
    LET offset == (y * image.res.x + x) * image.c
        px == image.pixels
    IN  IF image.c < 3
        THEN qimg_color(px[offset], px[offset], px[offset],
                        IF image.c >= 2 THEN px[offset + 1] ELSE 255)
        ELSE qimg_color(px[offset], px[offset + 1], px[offset + 2],
                        IF image.c >= 4 THEN px[offset + 3] ELSE 255)

qimg_get_bg_color(bg) ==
    CASE bg = BG_BLACK -> qimg_color(0, 0, 0, 255)
      [] bg = BG_WHITE -> qimg_color(255, 255, 255, 255)
      [] bg = BG_RED -> qimg_color(255, 0, 0, 255)
      [] bg = BG_GREEN -> qimg_color(0, 255, 0, 255)
      [] bg = BG_BLUE -> qimg_color(0, 0, 255, 255)
      [] OTHER -> qimg_color(0, 0, 0, 255)

\* Whether the image coordinate t lies outside the image (line 704).
OutsideImage(image, t) ==
    t.x >= image.res.x \/ t.y >= image.res.y \/ t.x < 0 \/ t.y < 0

\* buf[offs] = v of lines 715-718 on the malloc'ed block b (a record of the
\* bytes `mem` and the offsets `oob` written past its end).
StoreByte(b, offs, v) ==
    IF offs \in DOMAIN b.mem
    THEN [b EXCEPT !.mem[offs] = v]
    ELSE [b EXCEPT !.oob = @ \cup {offs}]

\* The loop body without the `continue` of line 706: a slot outside the
\* image is painted with the colour qimg_get_bg_color gives for bg.
DrawPixelAlwaysPainting(b, image, f, pos, bg, x_, y_) ==
    LET t == qimg_translate_coords(pos, image.res, f.res, x_, y_)
        c == IF OutsideImage(image, t) THEN qimg_get_bg_color(bg)
                                       ELSE qimg_get_pixel(image, t.x, t.y)
        offs == (y_ * f.res.x + x_) * 4
    IN  StoreByte(StoreByte(StoreByte(StoreByte(b,
            offs + 0, c.b), offs + 1, c.g), offs + 2, c.r), offs + 3, c.a)

\* The loop body storing the colour in R,G,B,A order.
DrawPixelRGBA(b, image, f, pos, bg, x_, y_) ==
    LET t == qimg_translate_coords(pos, image.res, f.res, x_, y_)
        outside == OutsideImage(image, t)
        c == IF outside THEN qimg_get_bg_color(bg)
                        ELSE qimg_get_pixel(image, t.x, t.y)
        offs == (y_ * f.res.x + x_) * 4
    IN  IF outside /\ bg = BG_DISABLED
        THEN b
        ELSE StoreByte(StoreByte(StoreByte(StoreByte(b,
                 offs + 0, c.r), offs + 1, c.g), offs + 2, c.b), offs + 3, c.a)

\* The body of the two loops of lines 697-720 for framebuffer pixel (x_, y_).
DrawPixel(b, image, f, pos, bg, x_, y_) ==
    LET t == qimg_translate_coords(pos, image.res, f.res, x_, y_)
        outside == OutsideImage(image, t)
        c == IF outside THEN qimg_get_bg_color(bg)
                        ELSE qimg_get_pixel(image, t.x, t.y)
        offs == (y_ * f.res.x + x_) * 4
    IN  IF outside /\ bg = BG_DISABLED
        THEN b
        ELSE StoreByte(StoreByte(StoreByte(StoreByte(b,
                 offs + 0, c.b), offs + 1, c.g), offs + 2, c.r), offs + 3, c.a)

\* The loops of lines 697-720 from their k-th iteration on: x_ is the outer
\* index and y_ the inner one.
RECURSIVE DrawPixels(_, _, _, _, _, _)
DrawPixels(k, b, image, f, pos, bg) ==
    IF k >= f.res.x * f.res.y
    THEN b
    ELSE DrawPixels(k + 1,
                    DrawPixel(b, image, f, pos, bg, k \div f.res.y, k % f.res.y),
                    image, f, pos, bg)

\* qimg_draw_image up to its call of qimg_draw_buffer: buf starts as a copy
\* of the framebuffer (lines 692-693) and the loops paint into it.
ComposeBuffer(image, f, pos, bg) ==
    DrawPixels(0, [mem |-> f.fbdata, oob |-> {}], image, f, pos, bg)

(***************************************************************************)
(* Scaling.  qimg_get_scaled_dims computes in C `float`: a positive float  *)
(* is the pair [m, e] standing for m * 2^e with 2^23 <= m < 2^24, every    *)
(* operation rounds its exact result to nearest, ties to even, and the     *)
(* assignment to an int truncates.  Dimensions stay below 64 so that every *)
(* intermediate product fits the checker's integers.                       *)
(***************************************************************************)
RECURSIVE NormShift(_, _, _)
\* The least k >= k0 with a * 2^k >= b * 2^23.
NormShift(a, b, k0) ==
    IF a * (2 ^ k0) >= b * (2 ^ 23) THEN k0 ELSE NormShift(a, b, k0 + 1)

\* Round q + r/d (0 <= r < d) to nearest, ties to even.
RoundNearestEven(q, r, d) ==
    IF 2 * r > d \/ (2 * r = d /\ q % 2 = 1) THEN q + 1 ELSE q

\* A rounded significand that reached 2^24 is renormalised.
FloatNorm(m, e) == IF m = 2 ^ 24 THEN [m |-> 2 ^ 23, e |-> e + 1]
                                 ELSE [m |-> m, e |-> e]

\* (float) a / (float) b for integers 0 < a, b < 64.
FloatDiv(a, b) ==
    LET k == NormShift(a, b, 0)
        num == a * (2 ^ k)
    IN  FloatNorm(RoundNearestEven(num \div b, num % b, b), -k)

RECURSIVE DropShift(_, _)
\* The least t >= t0 with P \div 2^t < 2^24.
DropShift(P, t0) ==
    IF P \div (2 ^ t0) < 2 ^ 24 THEN t0 ELSE DropShift(P, t0 + 1)

\* s * p for an int 0 < s < 64 and a float p: s converts exactly, the
\* product is rounded once.
FloatMulInt(s, p) ==
    LET P == s * p.m
        t == DropShift(P, 0)
    IN  FloatNorm(RoundNearestEven(P \div (2 ^ t), P % (2 ^ t), 2 ^ t), p.e + t)

\* p > q for positive floats.
FloatGT(p, q) == p.e > q.e \/ (p.e = q.e /\ p.m > q.m)

\* The conversion of a positive float to int: truncation.
FloatToInt(p) ==
    IF p.e >= 0 THEN p.m * (2 ^ p.e)
    ELSE IF -p.e > 24 THEN 0
    ELSE p.m \div (2 ^ (-p.e))

qimg_get_scaled_dims(src, vp, sc) ==
    LET px == FloatDiv(vp.x, src.x)
        py == FloatDiv(vp.y, src.y)
    IN  CASE sc = SCALE_DISABLED -> src
          [] sc = SCALE_STRETCH -> vp
          [] sc = SCALE_FILL ->
                LET p == IF FloatGT(px, py) THEN px ELSE py
                IN  qimg_point(FloatToInt(FloatMulInt(src.x, p)),
                               FloatToInt(FloatMulInt(src.y, p)))
          [] sc = SCALE_FIT ->
                LET p == IF FloatGT(px, py) THEN py ELSE px
                IN  qimg_point(FloatToInt(FloatMulInt(src.x, p)),
                               FloatToInt(FloatMulInt(src.y, p)))

\* stbir_resize_uint8, the external resampler, as nearest-neighbour
\* sampling; the channel count is kept.
Resample(image, dest) ==
    [image EXCEPT
        !.res = dest,
        !.pixels = [o \in 0..(dest.x * dest.y * image.c - 1) |->
            LET ch == o % image.c
                p == o \div image.c
                sx == ((p % dest.x) * image.res.x) \div dest.x
                sy == ((p \div dest.x) * image.res.y) \div dest.y
            IN  image.pixels[(sy * image.res.x + sx) * image.c + ch]]]

\* qimg_resize_image: the resampler's result decides; on success the old
\* buffer is freed and pixels and res are replaced, on failure the image is
\* left as it was and false is returned.
qimg_resize_image(image, dest) ==
    IF dest.x > 0 /\ dest.y > 0
    THEN [ok |-> TRUE, image |-> Resample(image, dest)]
    ELSE [ok |-> FALSE, image |-> image]

(***************************************************************************)
(* The clock.  clk counts milliseconds of CPU time since begin_clk.        *)
(***************************************************************************)
\* qimg_get_millis: the cast to uint32_t applies to the quotient in seconds,
\* which is then multiplied by 1000.
qimg_get_millis == (clk \div 1000) * 1000

\* A uint32_t difference that wrapped around is 2^32 - (b - a), which is
\* beyond the checker's integers; the largest integer stands for it.
U32Wrapped == (2 ^ 30 - 1) + 2 ^ 30

\* a - b in uint32_t arithmetic.
U32Sub(a, b) == IF a >= b THEN a - b ELSE U32Wrapped

qimg_have_millis_elapsed(start, millis) ==
    U32Sub(qimg_get_millis, start) > millis

(***************************************************************************)
(* The state at the entry of qimg_draw_images.                             *)
(***************************************************************************)
NoImage == [src |-> NoSource, res |-> qimg_point(0, 0), c |-> 0,
            pixels |-> <<>>, live |-> FALSE]

NoBuffer == <<>>

\* main, lines 1040-1041: a slideshow without -delay gets the default
\* interval.
DefaultDelay(n_inputs, dly) == IF dly = 0 /\ n_inputs > 1 THEN 5 ELSE dly

\* main, lines 1019-1058, for parsed arguments a, static scale sc, window
\* capacity K, decodable files f, opened framebuffer framebuf and CPU clock
\* c0 at the entry of qimg_draw_images.  A run is followed for `cap` calls
\* of qimg_get_next.
MainInit(a, sc, K, f, framebuf, c0, cap) ==
    /\ args = [a EXCEPT !.slide_dly_s = DefaultDelay(a.n_inputs, @)]
    /\ scale = sc
    /\ buffer_size = K
    /\ files = f
    /\ dcol = qimg_init_dyn_collection(a.n_inputs, K)
    /\ im = [slot |-> -1]
    /\ wild = NoImage
    /\ i = 0
    /\ fb = framebuf
    /\ buf = NoBuffer
    /\ start_ticks = 0
    /\ to_sleep = 0
    /\ run = TRUE
    /\ pc = "loop"
    /\ clk = c0
    /\ obs = [loads |-> <<Min(a.n_inputs, K)>>,  \* sizes of the batches loaded
              n_fetch |-> 0,       \* qimg_get_next calls made
              n_cycles |-> 0,      \* presentation cycles begun
              n_writes |-> 0,      \* framebuffer writes of the current cycle
                                   \* (2 stands for two or more)
              slept |-> FALSE,     \* the current cycle called qimg_sleep_ms
              elapsed |-> 0,       \* wall milliseconds since the cycle began
              fb0 |-> NoBuffer,    \* the framebuffer bytes before the composite
              oob |-> {},          \* offsets written past the end of buf
              sig_pc |-> "none",   \* where main stood when `run` was cleared
              sig_fetch |-> 0,     \* n_fetch at that moment
              sig_cycles |-> 0,    \* n_cycles at that moment
              fetch_cap |-> cap,   \* calls of qimg_get_next followed
              src_res |-> qimg_point(0, 0),  \* im->res before the last scaling
              dest |-> qimg_point(0, 0),     \* the last qimg_get_scaled_dims
              resized |-> "none"]  \* "ok" / "failed": the last
                                   \* qimg_resize_image of the current image

\* One-pixel images whose bytes tell the sources apart.
TaggedFiles(n) == [s \in 0..(n - 1) |-> DecodedImage(s, 1, 1, 3)]

DefaultArgs(n, lp) ==
    [n_inputs |-> n, loop |-> lp, repaint |-> FALSE, slide_dly_s |-> 0,
     hide_cursor |-> FALSE, pos |-> POS_TOP_LEFT, bg |-> BG_DISABLED]

(***************************************************************************)
(* The loader as qimg_draw_images drives it.                               *)
(***************************************************************************)
\* What a read of col.images[k] past the loaded window can yield: the slot
\* was never initialised by qimg_load_collection (or lies past the array),
\* so it holds a stale qimg_image whose pixels were freed, or bytes that are
\* no image at all.
Indeterminate ==
    {NoImage} \cup {[files[s] EXCEPT !.live = FALSE] : s \in DOMAIN files}

\* The image `im` points at.
CurrentImage ==
    IF im.slot < dcol.col.size THEN dcol.col.images[im.slot] ELSE wild

\* The loop condition that lets -loop repeat a single source too.
LoopRepeatsSingle == i < dcol.size \/ args.loop

\* The loop condition that gives up one image early.
LoopStopsEarly == i + 1 < dcol.size \/ (args.loop /\ dcol.size > 1)

\* while (i < dcol->size || (loop && dcol->size > 1)), line 619.
LoopContinues == i < dcol.size \/ (args.loop /\ dcol.size > 1)

\* im = qimg_get_next(dcol), line 620.
CallGetNext ==
    LET r == qimg_get_next(dcol, buffer_size)
    IN  /\ dcol' = r.dcol
        /\ im' = [slot |-> r.slot]
        /\ IF r.slot < r.dcol.col.size
           THEN wild' = NoImage
           ELSE wild' \in Indeterminate
        /\ obs' = [obs EXCEPT
                     !.n_fetch = @ + 1,
                     !.loads = IF r.reload THEN Append(@, r.dcol.col.size)
                                           ELSE @]

\* One iteration of the loop of qimg_draw_images with the drawing left out:
\* the loop condition, the call of qimg_get_next and ++i.
FetchNext ==
    /\ pc = "loop"
    /\ LoopContinues
    /\ obs.n_fetch < obs.fetch_cap
    /\ CallGetNext
    /\ i' = i + 1
    /\ UNCHANGED <<args, scale, buffer_size, files, fb, buf, start_ticks,
                   to_sleep, run, pc, clk>>

(***************************************************************************)
(* qimg_draw_images, qimg_draw_image and qimg_draw_buffer, one action per  *)
(* step between two points at which the signal handler may run or the      *)
(* clock is read.                                                          *)
(***************************************************************************)
\* Milliseconds of CPU time one memcpy of the frame may take: less than a
\* millisecond, or half a second on a slow device.
CopyMs == {0, 500}

\* How long into a sleep a signal may arrive.
SleepCut == {0, 500}

MaxPlayN == 3        \* sources in a playback run

MaxDelay == 2        \* largest -delay given on the command line, in seconds

\* The longest interval of a run: the default of line 1041 or MaxDelay.
LongestDelay == IF MaxDelay > 5 THEN MaxDelay ELSE 5

\* CPU clock up to which a run is followed: enough for MaxPlayN cycles of
\* the longest interval, each of which ends within a second of its interval.
MaxClk == 500 + MaxPlayN * (LongestDelay + 1) * 1000

delay_set == args.slide_dly_s > 0

delay_ms == args.slide_dly_s * 1000

\* e + t for wall milliseconds, kept within the checker's integers.
ElapsedAdd(e, t) == IF t >= U32Wrapped - e THEN U32Wrapped ELSE e + t

\* Line 619: the loop condition.
LoopCond ==
    /\ pc = "loop"
    /\ LoopContinues => obs.n_fetch < obs.fetch_cap
    /\ pc' = IF LoopContinues THEN "get_next" ELSE "drawn"
    /\ UNCHANGED <<args, scale, buffer_size, files, dcol, im, wild, i, fb,
                   buf, start_ticks, to_sleep, run, clk, obs>>

\* Line 620.
GetNext ==
    /\ pc = "get_next"
    /\ CallGetNext
    /\ pc' = "scale"
    /\ UNCHANGED <<args, scale, buffer_size, files, i, fb, buf, start_ticks,
                   to_sleep, run, clk>>

\* Lines 621-625.  The result of qimg_resize_image is not looked at.
ScaleImage ==
    /\ pc = "scale"
    /\ IF scale = SCALE_DISABLED
       THEN /\ pc' = "compose"
            /\ obs' = [obs EXCEPT !.resized = "none"]
            /\ UNCHANGED <<dcol, wild>>
       ELSE IF CurrentImage = NoImage
       THEN pc' = "crashed" /\ UNCHANGED <<dcol, wild, obs>>
       ELSE LET dest == qimg_get_scaled_dims(CurrentImage.res, fb.res, scale)
                r == qimg_resize_image(CurrentImage, dest)
            IN  /\ pc' = "compose"
                /\ obs' = [obs EXCEPT !.src_res = CurrentImage.res,
                                      !.dest = dest,
                                      !.resized = IF r.ok THEN "ok" ELSE "failed"]
                /\ IF im.slot < dcol.col.size
                   THEN /\ dcol' = [dcol EXCEPT !.col.images[im.slot] = r.image]
                        /\ wild' = wild
                   ELSE /\ wild' = r.image
                        /\ dcol' = dcol
    /\ UNCHANGED <<args, scale, buffer_size, files, im, i, fb, buf,
                   start_ticks, to_sleep, run, clk>>

\* qimg_draw_image, lines 692-720: the frame is built off the surface.
Compose ==
    /\ pc = "compose"
    /\ IF CurrentImage = NoImage
       THEN pc' = "crashed" /\ UNCHANGED <<buf, obs>>
       ELSE LET b == ComposeBuffer(CurrentImage, fb, args.pos, args.bg)
            IN  /\ buf' = b.mem
                /\ obs' = [obs EXCEPT !.fb0 = fb.fbdata, !.oob = b.oob]
                /\ pc' = "draw_buffer"
    /\ UNCHANGED <<args, scale, buffer_size, files, dcol, im, wild, i, fb,
                   start_ticks, to_sleep, run, clk>>

\* qimg_draw_buffer, lines 665-667: the presentation cycle begins.
DrawBufferEnter ==
    /\ pc = "draw_buffer"
    /\ start_ticks' = qimg_get_millis
    /\ obs' = [obs EXCEPT !.n_cycles = @ + 1, !.n_writes = 0,
                          !.slept = FALSE, !.elapsed = 0]
    /\ pc' = "memcpy"
    /\ UNCHANGED <<args, scale, buffer_size, files, dcol, im, wild, i, fb,
                   buf, to_sleep, run, clk>>

\* Line 669: the frame is written to the surface; the copy takes CPU time.
MemcpyTaking(d) ==
    /\ pc = "memcpy"
    /\ clk + d <= MaxClk
    /\ clk' = clk + d
    /\ obs' = [obs EXCEPT !.n_writes = Min(@ + 1, 2),
                          !.elapsed = ElapsedAdd(@, d)]
    /\ fb' = [fb EXCEPT !.fbdata = buf]
    /\ pc' = "timer"
    /\ UNCHANGED <<args, scale, buffer_size, files, dcol, im, wild, i, buf,
                   start_ticks, to_sleep, run>>

Memcpy == \E d \in CopyMs : MemcpyTaking(d)

\* The checks after the write without the branch of lines 684-685: with no
\* delay and no repaint the frame is written again while `run` holds.
CheckTimerWithoutBreak ==
    /\ pc = "timer"
    /\ IF delay_set /\ args.repaint
       THEN /\ pc' = IF qimg_have_millis_elapsed(start_ticks, delay_ms)
                     THEN "return" ELSE "while_run"
            /\ to_sleep' = to_sleep
       ELSE IF delay_set /\ ~args.repaint
       THEN LET t == U32Sub(delay_ms, U32Sub(qimg_get_millis, start_ticks))
            IN  /\ to_sleep' = t
                /\ pc' = IF t > 0 THEN "sleep" ELSE "return"
       ELSE pc' = "while_run" /\ to_sleep' = to_sleep
    /\ UNCHANGED <<args, scale, buffer_size, files, dcol, im, wild, i, fb,
                   buf, start_ticks, run, clk, obs>>

\* Lines 672-686: the if / else-if chain after the write.
CheckTimer ==
    /\ pc = "timer"
    /\ IF delay_set /\ args.repaint
       THEN /\ pc' = IF qimg_have_millis_elapsed(start_ticks, delay_ms)
                     THEN "return" ELSE "while_run"
            /\ to_sleep' = to_sleep
       ELSE IF delay_set /\ ~args.repaint
       THEN LET t == U32Sub(delay_ms, U32Sub(qimg_get_millis, start_ticks))
            IN  /\ to_sleep' = t
                /\ pc' = IF t > 0 THEN "sleep" ELSE "return"
       ELSE IF ~delay_set /\ ~args.repaint
       THEN pc' = "return" /\ to_sleep' = to_sleep
       ELSE pc' = "while_run" /\ to_sleep' = to_sleep
    /\ UNCHANGED <<args, scale, buffer_size, files, dcol, im, wild, i, fb,
                   buf, start_ticks, run, clk, obs>>

\* Line 680: qimg_sleep_ms(to_sleep) runs to its end.  Sleeping takes wall
\* time and no CPU time.
Sleep ==
    /\ pc = "sleep"
    /\ obs' = [obs EXCEPT !.slept = TRUE,
                          !.elapsed = ElapsedAdd(@, to_sleep)]
    /\ pc' = "return"
    /\ UNCHANGED <<args, scale, buffer_size, files, dcol, im, wild, i, fb,
                   buf, start_ticks, to_sleep, run, clk>>

\* Line 687: } while (run);
WhileRun ==
    /\ pc = "while_run"
    /\ pc' = IF run THEN "memcpy" ELSE "return"
    /\ UNCHANGED <<args, scale, buffer_size, files, dcol, im, wild, i, fb,
                   buf, start_ticks, to_sleep, run, clk, obs>>

\* Lines 723 and 627: free(buf), the return to qimg_draw_images and ++i.
\* free() of a block that was written past its end may abort the process.
DrawImageReturn ==
    /\ pc = "return"
    /\ buf' = NoBuffer
    /\ i' = i + 1
    /\ pc' \in IF obs.oob = {} THEN {"check_run"} ELSE {"check_run", "crashed"}
    /\ UNCHANGED <<args, scale, buffer_size, files, dcol, im, wild, fb,
                   start_ticks, to_sleep, run, clk, obs>>

\* The check between images without its break.
CheckRunIgnoringFlag ==
    /\ pc = "check_run"
    /\ pc' = "loop"
    /\ UNCHANGED <<args, scale, buffer_size, files, dcol, im, wild, i, fb,
                   buf, start_ticks, to_sleep, run, clk, obs>>

\* Lines 628-629: if (!run) break;
CheckRun ==
    /\ pc = "check_run"
    /\ pc' = IF ~run THEN "drawn" ELSE "loop"
    /\ UNCHANGED <<args, scale, buffer_size, files, dcol, im, wild, i, fb,
                   buf, start_ticks, to_sleep, run, clk, obs>>

(***************************************************************************)
(* main after qimg_draw_images, and the signal handler.                    *)
(***************************************************************************)
\* Line 1063: if (!repaint && hide_cursor && !slide_dly_s) pause();
AfterDraw ==
    /\ pc = "drawn"
    /\ pc' = IF ~args.repaint /\ args.hide_cursor /\ args.slide_dly_s = 0
             THEN "pause" ELSE "cleanup"
    /\ UNCHANGED <<args, scale, buffer_size, files, dcol, im, wild, i, fb,
                   buf, start_ticks, to_sleep, run, clk, obs>>

\* qimg_free_collection: every image of the window is freed.
qimg_free_collection(col) ==
    [col EXCEPT !.images = [k \in DOMAIN @ |-> [@[k] EXCEPT !.live = FALSE]]]

\* Lines 1066-1072.
Cleanup ==
    /\ pc = "cleanup"
    /\ fb' = IF args.repaint \/ args.hide_cursor
             THEN qimg_clear_framebuffer(fb) ELSE fb
    /\ dcol' = [dcol EXCEPT !.col = qimg_free_collection(@)]
    /\ pc' = "exit"
    /\ UNCHANGED <<args, scale, buffer_size, files, im, wild, i, buf,
                   start_ticks, to_sleep, run, clk, obs>>

\* interrupt_handler, lines 883-885, run on SIGINT or SIGTERM at any point
\* after line 1055.  A signal that arrives while main is blocked in pause()
\* or nanosleep() makes that call return once the handler has returned.
Interrupt ==
    /\ pc \notin {"exit", "crashed"}
    /\ run' = FALSE
    /\ pc' = IF pc = "pause" THEN "cleanup"
             ELSE IF pc = "sleep" THEN "return"
             ELSE pc
    /\ \E t \in SleepCut :
          obs' = [obs EXCEPT
                    !.sig_pc = IF run THEN pc ELSE @,
                    !.sig_fetch = IF run THEN obs.n_fetch ELSE @,
                    !.sig_cycles = IF run THEN obs.n_cycles ELSE @,
                    !.slept = IF pc = "sleep" THEN TRUE ELSE @,
                    !.elapsed = IF pc = "sleep"
                                THEN ElapsedAdd(@, Min(t, to_sleep)) ELSE @]
    /\ UNCHANGED <<args, scale, buffer_size, files, dcol, im, wild, i, fb,
                   buf, start_ticks, to_sleep, clk>>

(***************************************************************************)
(* Specifications.                                                         *)
(***************************************************************************)
\* The loader alone, as the program is built: every number of sources up
\* to MaxN, looping or not, through a window of MAX_BUFFER_SIZE images.
InitStream ==
    \E n \in 1..MaxN, lp \in BOOLEAN :
        MainInit(DefaultArgs(n, lp), SCALE_DISABLED, MAX_BUFFER_SIZE,
                 TaggedFiles(n), qimg_open_fb_from_path(1, 1, 4), 0,
                 2 * n + 2)

NextStream == FetchNext

SpecStream == InitStream /\ [][NextStream]_vars

\* The loader in every build whose MAX_BUFFER_SIZE is at most the shipped
\* one: the window capacity is a compile-time parameter of the loader.
InitWindows ==
    \E n \in 1..MaxN, lp \in BOOLEAN, K \in 1..MAX_BUFFER_SIZE :
        MainInit(DefaultArgs(n, lp), SCALE_DISABLED, K, TaggedFiles(n),
                 qimg_open_fb_from_path(1, 1, 4), 0, 2 * n + 2)

NextWindows == FetchNext

SpecWindows == InitWindows /\ [][NextWindows]_vars

\* The whole program on a one-pixel surface: up to MaxPlayN sources, every
\* combination of -loop, -r, -c, -delay up to MaxDelay seconds and two scale
\* styles, entered at either half of a clock second.
InitPlay ==
    \E n \in 1..MaxPlayN, lp \in BOOLEAN, rp \in BOOLEAN, hc \in BOOLEAN,
       dly \in 0..MaxDelay, sc \in {SCALE_DISABLED, SCALE_STRETCH},
       c0 \in {0, 500} :
        MainInit([DefaultArgs(n, lp) EXCEPT !.repaint = rp,
                                            !.hide_cursor = hc,
                                            !.slide_dly_s = dly],
                 sc, MAX_BUFFER_SIZE, TaggedFiles(n),
                 qimg_open_fb_from_path(1, 1, 4), c0, n + 2)

\* The steps of main's thread of control.
MainStep ==
    \/ LoopCond \/ GetNext \/ ScaleImage \/ Compose \/ DrawBufferEnter
    \/ Memcpy \/ CheckTimer \/ Sleep \/ WhileRun \/ DrawImageReturn
    \/ CheckRun \/ AfterDraw \/ Cleanup

NextPlay == MainStep \/ Interrupt

SpecPlay == InitPlay /\ [][NextPlay]_vars

\* The program without -loop and without any signal.  Main's thread keeps
\* running (weak fairness of its steps), and a loop that keeps copying
\* frames consumes CPU time, so clock() eventually moves on (strong
\* fairness of the copies that take time).
InitFinite ==
    \E n \in 1..MaxPlayN, rp \in BOOLEAN, hc \in BOOLEAN,
       dly \in 0..MaxDelay, sc \in {SCALE_DISABLED, SCALE_STRETCH},
       c0 \in {0, 500} :
        MainInit([DefaultArgs(n, FALSE) EXCEPT !.repaint = rp,
                                               !.hide_cursor = hc,
                                               !.slide_dly_s = dly],
                 sc, MAX_BUFFER_SIZE, TaggedFiles(n),
                 qimg_open_fb_from_path(1, 1, 4), c0, n + 2)

NextFinite == MainStep

SpecFinite ==
    /\ InitFinite
    /\ [][NextFinite]_vars
    /\ WF_vars(MainStep)
    /\ SF_vars(\E d \in CopyMs \ {0} : MemcpyTaking(d))

\* One image of any size and channel count shown once, unscaled, on a
\* surface of 32 bits per pixel of any size, for every placement and
\* background.
MaxFb == 2
MaxIm == 3

InitComp ==
    \E p \in qimg_position, g \in qimg_bg,
       fx \in 1..MaxFb, fy \in 1..MaxFb,
       w \in 1..MaxIm, h \in 1..MaxIm, c \in 1..4 :
        MainInit([DefaultArgs(1, FALSE) EXCEPT !.pos = p, !.bg = g],
                 SCALE_DISABLED, MAX_BUFFER_SIZE,
                 [s \in {0} |-> DecodedImage(s, w, h, c)],
                 qimg_open_fb_from_path(fx, fy, 4), 0, 1)

NextComp ==
    \/ LoopCond
    \/ GetNext
    \/ ScaleImage
    \/ Compose
    \/ DrawBufferEnter
    \/ Memcpy
    \/ CheckTimer
    \/ DrawImageReturn
    \/ CheckRun
    \/ AfterDraw
    \/ Cleanup

SpecComp == InitComp /\ [][NextComp]_vars

\* One grey image of any size up to MaxSrc scaled for a surface of any
\* size up to MaxVp, followed up to the call of qimg_draw_image.
MaxSrc == 11
MaxVp == 13

InitDims ==
    \E sc \in {SCALE_FIT, SCALE_FILL},
       fx \in 1..MaxVp, fy \in 1..MaxVp,
       w \in 1..MaxSrc, h \in 1..MaxSrc :
        MainInit(DefaultArgs(1, FALSE), sc, MAX_BUFFER_SIZE,
                 [s \in {0} |-> DecodedImage(s, w, h, 1)],
                 qimg_open_fb_from_path(fx, fy, 4), 0, 1)

NextDims ==
    \/ LoopCond
    \/ GetNext
    \/ ScaleImage

SpecDims == InitDims /\ [][NextDims]_vars

\* One image of three channels shown once under every scale mode and
\* placement, on a surface of 16 or 32 bits per pixel.
InitFrame ==
    \E sc \in qimg_scale, p \in qimg_position, g \in {BG_DISABLED, BG_BLACK},
       fx \in 1..MaxFb, fy \in 1..MaxFb, fb_bytes \in {2, 4},
       w \in 1..MaxIm, h \in 1..MaxIm :
        MainInit([DefaultArgs(1, FALSE) EXCEPT !.pos = p, !.bg = g],
                 sc, MAX_BUFFER_SIZE,
                 [s \in {0} |-> DecodedImage(s, w, h, 3)],
                 qimg_open_fb_from_path(fx, fy, fb_bytes), 0, 1)

NextFrame ==
    \/ LoopCond
    \/ GetNext
    \/ ScaleImage
    \/ Compose
    \/ DrawBufferEnter
    \/ Memcpy
    \/ CheckTimer
    \/ DrawImageReturn
    \/ CheckRun
    \/ AfterDraw
    \/ Cleanup

SpecFrame == InitFrame /\ [][NextFrame]_vars

\* The program with -loop and without any signal, under the fairness of
\* SpecFinite.
InitLoop ==
    \E n \in 1..MaxPlayN, rp \in BOOLEAN, hc \in BOOLEAN,
       dly \in 0..MaxDelay, sc \in {SCALE_DISABLED, SCALE_STRETCH},
       c0 \in {0, 500} :
        MainInit([DefaultArgs(n, TRUE) EXCEPT !.repaint = rp,
                                              !.hide_cursor = hc,
                                              !.slide_dly_s = dly],
                 sc, MAX_BUFFER_SIZE, TaggedFiles(n),
                 qimg_open_fb_from_path(1, 1, 4), c0, n + 2)

NextLoop == MainStep

SpecLoop ==
    /\ InitLoop
    /\ [][NextLoop]_vars
    /\ WF_vars(MainStep)
    /\ SF_vars(\E d \in CopyMs \ {0} : MemcpyTaking(d))

(***************************************************************************)
(* Claims about the loader.                                                *)
(***************************************************************************)
\* The pointer returned last names a slot of the loaded window.
InWindow == im.slot >= 0 /\ im.slot < dcol.col.size

\* The call made last returned the decoded image of source s.
Returned(s) == InWindow /\ CurrentImage = files[s]

CeilDiv(a, b) == (a + b - 1) \div b

\* C1: with looping enabled and at least two sources, the i-th call of
\* qimg_get_next (i = 0, 1, 2, ...) returns the decoded image of source
\* i mod N, for every window capacity.
C1_LoopingReturnsSourceIModN ==
    (args.loop /\ args.n_inputs >= 2 /\ obs.n_fetch >= 1)
        => Returned((obs.n_fetch - 1) % args.n_inputs)

\* C2: without looping, the calls return sources 0, 1, ..., N-1 in order,
\* and the batches loaded so far (the initial one included) are the first
\* ones of the ceil(N/K) batches of sizes min(K, N - j*K); once all N
\* images were fetched exactly ceil(N/K) batches have been loaded.
C2_BatchesAndOrder ==
    ~args.loop =>
        LET N == args.n_inputs
            K == buffer_size
            nb == IF obs.n_fetch = 0 THEN 1 ELSE CeilDiv(obs.n_fetch, K)
        IN  /\ obs.n_fetch <= N
            /\ obs.n_fetch >= 1 => Returned(obs.n_fetch - 1)
            /\ obs.loads = [j \in 1..nb |-> Min(K, N - (j - 1) * K)]
            /\ obs.n_fetch = N => Len(obs.loads) = CeilDiv(N, K)

\* C2's case: five sources through a window of two, all five fetched in
\* three batches of sizes 2, 2, 1.
C2_Witness ==
    /\ ~args.loop /\ args.n_inputs = 5 /\ buffer_size = 2
    /\ obs.n_fetch = 5 /\ obs.loads = <<2, 2, 1>>
    /\ Returned(4)

\* C3: the pointer every call returns names an image decoded into the
\* current window (its slot is below the window's size) whose pixel buffer
\* has not been freed, looping or not.
C3_ReturnedImageIsLive ==
    obs.n_fetch >= 1 => (InWindow /\ CurrentImage.live)

(***************************************************************************)
(* Claims about the playback loop and the presentation cycle.              *)
(***************************************************************************)
\* The points of qimg_draw_buffer, from its first write to its return.
InCycle == pc \in {"memcpy", "timer", "sleep", "while_run", "return"}

\* C4 as stated: once the flag has been set during or after an image's
\* presentation cycle (a cycle had begun when the handler ran), no further
\* image is fetched.
C4_NoFetchAfterFlag ==
    (obs.sig_pc # "none" /\ obs.sig_cycles >= 1)
        => obs.n_fetch = obs.sig_fetch

\* C4 as amended: a flag set at any point other than between the check of
\* line 628 and the next call of qimg_get_next (that is, while an image is
\* fetched, scaled, composited or presented, or before the check that
\* follows its cycle) lets no further image start; a flag set between that
\* check and the next fetch lets exactly that one image start and no other.
C4_NoFetchAfterObservedFlag ==
    obs.sig_pc # "none" =>
        obs.n_fetch <= obs.sig_fetch
                       + (IF obs.sig_pc \in {"loop", "get_next"} THEN 1 ELSE 0)

\* C4's case: the flag was set during the first cycle of a slideshow with
\* images left to show, the loop has ended and no further image was fetched.
C4_Witness ==
    /\ args.n_inputs >= 2 /\ obs.sig_pc = "timer" /\ obs.sig_cycles = 1
    /\ pc = "drawn" /\ obs.n_fetch = 1 /\ i = 1

\* C5: with a delay and repaint, the cycle returns at the first check at
\* which the delay has elapsed since the cycle began or the flag is set: it
\* never passes the check of line 671 towards another write when more
\* than delay_ms have elapsed since the cycle began.
C5_RepaintStopsWhenDelayElapsed ==
    (delay_set /\ args.repaint /\ pc = "while_run")
        => obs.elapsed <= delay_ms

\* C6: with a delay, no repaint and no cancellation, the cycle does not
\* return before delay_ms have elapsed since it began.
C6_SleepCoversDelay ==
    (delay_set /\ ~args.repaint /\ run /\ pc = "return")
        => obs.elapsed >= delay_ms

\* C7: without repaint every presentation cycle writes the frame exactly
\* once, whatever the delay and the flag, and with no delay it returns
\* after that write without sleeping.
C7_SingleWrite ==
    ~args.repaint =>
        /\ pc # "while_run"
        /\ pc = "memcpy" => obs.n_writes = 0
        /\ pc \in {"timer", "sleep", "return"} => obs.n_writes = 1
        /\ (~delay_set /\ InCycle) => (pc # "sleep" /\ ~obs.slept)

\* C7's case: no repaint, no delay, the flag already set, and the cycle
\* returns after its single write.
C7_Witness ==
    /\ ~args.repaint /\ ~delay_set /\ ~run
    /\ pc = "return" /\ obs.n_writes = 1 /\ ~obs.slept

\* C8: the wait of line 1063 is aborted by the flag being set, also when
\* it was set before the wait began: the program never sits in pause()
\* while the flag is set.
C8_PauseAbortedByFlag == ~run => pc # "pause"

\* A presentation cycle that ends by itself: repaint off, or a delay.
Bounded == ~args.repaint \/ delay_set

\* C9: a non-looping sequence of N sources with bounded cycles and no
\* cancellation runs exactly N presentation cycles, the k-th of them
\* presenting source k-1, and then the playback loop terminates.
C9_FiniteSequenceTerminates ==
    /\ [](Bounded =>
            /\ InCycle => /\ CurrentImage.src = obs.n_cycles - 1
                          /\ obs.n_cycles = obs.n_fetch
                          /\ obs.n_cycles <= args.n_inputs
            /\ pc \in {"drawn", "pause", "cleanup", "exit"}
                  => /\ obs.n_cycles = args.n_inputs
                     /\ obs.n_fetch = args.n_inputs
                     /\ i = args.n_inputs)
    /\ <>(~Bounded \/ pc = "drawn")

\* C9's case: a sequence of several sources has been shown to its end
\* without a signal and the loop has been left.
C9_Witness ==
    /\ args.n_inputs >= 2 /\ ~args.loop /\ Bounded /\ run
    /\ pc = "drawn" /\ obs.n_cycles = args.n_inputs

(***************************************************************************)
(* Claims about the compositor.                                            *)
(***************************************************************************)
\* The framebuffer pixels, and the offset of the 4-byte slot of one.
FbPixels == (0..(fb.res.x - 1)) \X (0..(fb.res.y - 1))

SlotOffs(q) == (q[2] * fb.res.x + q[1]) * 4

\* The slots whose image coordinate lies outside the current image.
SlotsOutside ==
    {q \in FbPixels :
        OutsideImage(CurrentImage,
                     qimg_translate_coords(args.pos, CurrentImage.res, fb.res,
                                           q[1], q[2]))}

\* C10: with BG_DISABLED, every 4-byte slot whose image coordinate lies
\* outside the image holds the bytes the framebuffer held before the
\* composite, in the composited buffer and, once written, in the
\* framebuffer, for every placement and image size.
C10_TransparentKeepsOutside ==
    (args.bg = BG_DISABLED
       /\ pc \in {"draw_buffer", "memcpy", "timer", "return", "check_run"})
        => \A q \in SlotsOutside : \A k \in 0..3 :
              /\ buf # NoBuffer => buf[SlotOffs(q) + k] = obs.fb0[SlotOffs(q) + k]
              /\ obs.n_writes >= 1
                    => fb.fbdata[SlotOffs(q) + k] = obs.fb0[SlotOffs(q) + k]

\* C10's case: a centred image that covers part of the surface only has
\* been composited with BG_DISABLED and written.
C10_Witness ==
    /\ args.bg = BG_DISABLED /\ args.pos = POS_CENTERED
    /\ pc = "timer" /\ obs.n_writes = 1
    /\ SlotsOutside # {} /\ SlotsOutside # FbPixels
    /\ fb.fbdata # obs.fb0

\* The image coordinate of framebuffer pixel q.
ImageCoord(q) ==
    qimg_translate_coords(args.pos, CurrentImage.res, fb.res, q[1], q[2])

\* The four bytes of the buffer b at the slot of framebuffer pixel q.
SlotBytes(b, q) == [k \in 0..3 |-> b[SlotOffs(q) + k]]

\* B,G,R,A of the pixel at image coordinate t, by channel count.
PixelBGRA(image, t) ==
    LET o == (t.y * image.res.x + t.x) * image.c
        p == image.pixels
    IN  CASE image.c = 1 -> [k \in 0..3 |-> IF k = 3 THEN 255 ELSE p[o]]
          [] image.c = 2 -> [k \in 0..3 |-> IF k = 3 THEN p[o + 1] ELSE p[o]]
          [] image.c = 3 -> [k \in 0..3 |-> IF k = 3 THEN 255 ELSE p[o + 2 - k]]
          [] image.c = 4 -> [k \in 0..3 |-> IF k = 3 THEN p[o + 3]
                                                     ELSE p[o + 2 - k]]

\* B,G,R,A of a solid background.
SolidBGRA(bg) ==
    [k \in 0..3 |->
        CASE bg = BG_BLACK -> IF k = 3 THEN 255 ELSE 0
          [] bg = BG_WHITE -> 255
          [] bg = BG_RED   -> IF k \in {2, 3} THEN 255 ELSE 0
          [] bg = BG_GREEN -> IF k \in {1, 3} THEN 255 ELSE 0
          [] bg = BG_BLUE  -> IF k \in {0, 3} THEN 255 ELSE 0]

\* C11: in the composited buffer the slot of every framebuffer pixel whose
\* image coordinate is inside the image holds B,G,R,A of the sampled pixel
\* (grey and optional alpha for 1 and 2 channels, r,g,b and optional alpha
\* for 3 and 4), and with a solid background the slot of every pixel
\* outside the image holds the background colour in B,G,R,A order.
C11_SlotsHoldBGRA ==
    buf # NoBuffer =>
        \A q \in FbPixels :
            IF q \in SlotsOutside
            THEN args.bg # BG_DISABLED => SlotBytes(buf, q) = SolidBGRA(args.bg)
            ELSE SlotBytes(buf, q) = PixelBGRA(CurrentImage, ImageCoord(q))

\* C11's case: an image with three channels has been composited over part
\* of the surface with the red background around it.
C11_Witness ==
    /\ buf # NoBuffer /\ args.bg = BG_RED /\ CurrentImage.c = 3
    /\ \E q \in SlotsOutside :
          SlotBytes(buf, q) = [k \in 0..3 |-> IF k >= 2 THEN 255 ELSE 0]
    /\ \E q \in FbPixels \ SlotsOutside : buf[SlotOffs(q)] # buf[SlotOffs(q) + 2]

\* An image of four channels and of the framebuffer's resolution has been
\* composited at the top left with BG_DISABLED.
SameSizeTopLeft ==
    /\ buf # NoBuffer
    /\ CurrentImage.c = 4 /\ CurrentImage.res = fb.res
    /\ args.pos = POS_TOP_LEFT /\ args.bg = BG_DISABLED

\* C12 as stated: the composited buffer of such an image is a byte-for-byte
\* copy of the image's pixel buffer.
C12_ByteCopy == SameSizeTopLeft => buf = CurrentImage.pixels

\* C12 as amended: the composited buffer of such an image is the image's
\* pixel buffer with the first and third byte of every 4-byte pixel
\* exchanged (R,G,B,A stored as B,G,R,A), pixel for pixel at the same
\* offset.
C12_CopyWithRedAndBlueExchanged ==
    SameSizeTopLeft =>
        /\ DOMAIN buf = DOMAIN CurrentImage.pixels
        /\ \A o \in DOMAIN buf :
              buf[o] = CurrentImage.pixels[CASE o % 4 = 0 -> o + 2
                                             [] o % 4 = 2 -> o - 2
                                             [] OTHER -> o]

\* C12's case: a 2 x 2 image of four channels on a 2 x 2 surface.
C12_Witness ==
    /\ SameSizeTopLeft /\ fb.res = qimg_point(2, 2)
    /\ pc = "draw_buffer"
    /\ buf[0] = CurrentImage.pixels[2] /\ buf[0] # CurrentImage.pixels[0]

(***************************************************************************)
(* Claims about scaling.                                                   *)
(***************************************************************************)
\* qimg_get_scaled_dims has been called for the current image.
Scaled == pc = "compose" /\ obs.resized # "none"

\* C13: for every source size and viewport with positive dimensions the
\* target size is at most the viewport on both axes under SCALE_FIT and at
\* least the viewport on both axes under SCALE_FILL.
C13_TargetOnPolicySide ==
    Scaled =>
        /\ scale = SCALE_FIT
              => (obs.dest.x <= fb.res.x /\ obs.dest.y <= fb.res.y)
        /\ scale = SCALE_FILL
              => (obs.dest.x >= fb.res.x /\ obs.dest.y >= fb.res.y)

\* The real factor of the policy as a fraction: the smaller of
\* vp.x / src.x and vp.y / src.y under SCALE_FIT, the larger under SCALE_FILL.
RealFactor(src, vp, sc) ==
    LET x_smaller == vp.x * src.y < vp.y * src.x
        use_x == IF sc = SCALE_FIT THEN x_smaller ELSE ~x_smaller
    IN  IF use_x THEN [num |-> vp.x, den |-> src.x]
                 ELSE [num |-> vp.y, den |-> src.y]

\* max(1, floor(a * f)) for the fraction f.
FloorAtLeastOne(a, f) ==
    IF (a * f.num) \div f.den < 1 THEN 1 ELSE (a * f.num) \div f.den

\* C14: under SCALE_FIT and SCALE_FILL each axis of the target size is
\* max(1, floor(src_axis * factor)) for the real factor, and no target
\* dimension is 0.
C14_TargetIsFlooredProduct ==
    (Scaled /\ scale \in {SCALE_FIT, SCALE_FILL}) =>
        LET f == RealFactor(obs.src_res, fb.res, scale)
        IN  /\ obs.dest.x = FloorAtLeastOne(obs.src_res.x, f)
            /\ obs.dest.y = FloorAtLeastOne(obs.src_res.y, f)
            /\ obs.dest.x # 0 /\ obs.dest.y # 0

\* C15: when resampling the image fails, the failure is propagated and the
\* image's presentation is aborted: the image is not composited, no
\* presentation cycle begins for it and the process does not crash.
C15_ResampleFailureAborts ==
    obs.resized = "failed" =>
        /\ buf = NoBuffer
        /\ obs.n_cycles = 0
        /\ pc # "crashed"

\* C16: every byte written while a frame is composited and presented lies
\* at an offset in [0, size) of the buffer allocated with `size` bytes,
\* for every resolution and bytes-per-pixel value of the surface.
C16_WritesWithinSize == obs.oob = {}

(***************************************************************************)
(* Claims about the stream's bookkeeping and about -loop.                  *)
(***************************************************************************)
\* C17: after initialisation and after every call of qimg_get_next, for
\* any number of sources, looping or not, 0 <= col.idx <= col.size and
\* n_consumed <= col.size.
C17_CursorWithinWindow ==
    /\ 0 <= dcol.col.idx
    /\ dcol.col.idx <= dcol.col.size
    /\ dcol.n_consumed <= dcol.col.size

\* The playback loop has been left.
LoopLeft == pc \in {"drawn", "pause", "cleanup", "exit"}

\* C18: with -loop and exactly one source the playback loop does not
\* repeat: it fetches and presents that image once and, its cycle being
\* bounded, is then left without any signal; with two or more sources
\* -loop takes effect and the loop is never left without a signal.
C18_SingleSourceDoesNotLoop ==
    /\ [](/\ (args.loop /\ args.n_inputs = 1)
                => /\ obs.n_fetch <= 1 /\ obs.n_cycles <= 1
                   /\ LoopLeft => (obs.n_cycles = 1 /\ i = 1 /\ run)
          /\ (args.loop /\ args.n_inputs >= 2) => ~LoopLeft)
    /\ <>(~(args.loop /\ args.n_inputs = 1 /\ Bounded) \/ pc = "drawn")

\* C18's case: a single source shown with -loop, the program has run to
\* its end after one cycle and without a signal.
C18_Witness ==
    /\ args.loop /\ args.n_inputs = 1 /\ run
    /\ pc = "exit" /\ obs.n_cycles = 1 /\ obs.n_fetch = 1

====
